---------------------------- MODULE Spec2Model ----------------------------
(***************************************************************************)
(* Model of the point-in-time recoverer of mysql-pitr:                     *)
(*   recoverer/recoverer.go  (New, Run, setBinlogs, recover, helpers)      *)
(*   pxc (the cluster gateway: connection, GTID SQL, helper functions)     *)
(*                                                                         *)
(* Strings are sequences of one-character strings, so that Split,          *)
(* Contains, ParseInt and concatenation do what the Go code does.          *)
(***************************************************************************)
EXTENDS Integers, Sequences, FiniteSets, TLC

(***************************************************************************)
(* Bounds of the model.                                                    *)
(***************************************************************************)
\* Highest transaction number of a GTID in the archive or the cluster.
MaxTxn == 4
\* Most segments in an archive.
MaxSegs == 3

(***************************************************************************)
(* Strings.                                                                *)
(***************************************************************************)
EmptyStr == << >>

DigitChars == <<"0", "1", "2", "3", "4", "5", "6", "7", "8", "9">>

IsDigit(c) == \E d \in 1..10 : DigitChars[d] = c

DigitVal(c) == (CHOOSE d \in 1..10 : DigitChars[d] = c) - 1

\* strconv.Itoa / the decimal rendering of a non-negative number
RECURSIVE Itoa(_)
Itoa(n) == IF n < 10 THEN <<DigitChars[n + 1]>>
           ELSE Itoa(n \div 10) \o <<DigitChars[(n % 10) + 1]>>

\* the value of a string of digits
RECURSIVE DigitsVal(_)
DigitsVal(s) == IF Len(s) = 0 THEN 0
                ELSE 10 * DigitsVal(SubSeq(s, 1, Len(s) - 1)) + DigitVal(s[Len(s)])

AllDigits(s) == Len(s) > 0 /\ \A i \in 1..Len(s) : IsDigit(s[i])

\* strconv.ParseInt(s, 10, 64): an optional sign, then one or more digits.
\* (Values of the model stay far below 2^63, so the range error never arises.)
ParseInt(s) ==
    LET signed == Len(s) > 0 /\ s[1] \in {"+", "-"}
        body   == IF signed THEN SubSeq(s, 2, Len(s)) ELSE s
    IN  IF AllDigits(body)
        THEN [err |-> FALSE,
              val |-> IF signed /\ s[1] = "-" THEN 0 - DigitsVal(body) ELSE DigitsVal(body)]
        ELSE [err |-> TRUE, val |-> 0]

\* strings.Split(s, sep) for a one-character separator
RECURSIVE Split(_, _)
Split(s, sep) ==
    IF \A i \in 1..Len(s) : s[i] # sep
    THEN <<s>>
    ELSE LET i == CHOOSE k \in 1..Len(s) :
                     s[k] = sep /\ \A j \in 1..(k - 1) : s[j] # sep
         IN  <<SubSeq(s, 1, i - 1)>> \o Split(SubSeq(s, i + 1, Len(s)), sep)

\* strings.Contains(s, sub)
Contains(s, sub) ==
    \E i \in 1..(Len(s) - Len(sub) + 1) : SubSeq(s, i, i + Len(sub) - 1) = sub

\* reverse(list), recoverer.go
reverse(list) == [i \in 1..Len(list) |-> list[Len(list) + 1 - i]]

(***************************************************************************)
(* String literals of the code.                                            *)
(***************************************************************************)
\* "binlog_", the prefix of the listing (setBinlogs) and of segment names
binlogPrefix == <<"b", "i", "n", "l", "o", "g", "_">>
\* "-gtid-set", the suffix of a sidecar's name (setBinlogs)
gtidSetSuffix == <<"-", "g", "t", "i", "d", "-", "s", "e", "t">>
\* `--stop-datetime="`  (Run, case Date)
stopDatetimeOpt == <<"-", "-", "s", "t", "o", "p", "-", "d", "a", "t", "e", "t", "i", "m", "e", "=", "\"">>
\* `--exclude-gtids="`  (the cut-off flag of the Skip and Transaction modes)
excludeGtidsOpt == <<"-", "-", "e", "x", "c", "l", "u", "d", "e", "-", "g", "t", "i", "d", "s", "=", "\"">>
quoteChar == <<"\"">>
\* "mysqlbinlog --disable-log-bin "  (recover)
decoderCmd == <<"m", "y", "s", "q", "l", "b", "i", "n", "l", "o", "g", " ", "-", "-", "d", "i", "s", "a", "b", "l", "e", "-", "l", "o", "g", "-", "b", "i", "n", " ">>
\* " -"  (recover)
decoderStdinArg == <<" ", "-">>

\* RecoverType constants
Latest == "latest"
Date == "date"
Transaction == "transaction"
Skip == "skip"

(***************************************************************************)
(* GTID sets as the server computes them.  A set of transactions is a set  *)
(* of pairs <<uuid, n>>; the server reads a set from its text and answers  *)
(* with the canonical text.                                                *)
(***************************************************************************)
\* The source uuids of the model, in the server's sort order.
UuidList == << <<"u">>, <<"v">> >>

\* one interval "lo" or "lo-hi" of a fragment
IntervalOk(iv) ==
    LET e == Split(iv, "-")
    IN  /\ Len(e) \in {1, 2}
        /\ \A k \in 1..Len(e) : AllDigits(e[k])

IntervalTxns(iv) ==
    LET e  == Split(iv, "-")
        lo == DigitsVal(e[1])
        hi == IF Len(e) = 1 THEN lo ELSE DigitsVal(e[2])
    IN  lo..hi

\* one fragment "uuid:iv[:iv...]"
FragmentOk(f) ==
    LET p == Split(f, ":")
    IN  /\ Len(p) >= 2
        /\ \E k \in 1..Len(UuidList) : UuidList[k] = p[1]
        /\ \A k \in 2..Len(p) : IntervalOk(p[k])

FragmentTxns(f) ==
    LET p == Split(f, ":")
    IN  UNION {{<<p[1], n>> : n \in IntervalTxns(p[k])} : k \in 2..Len(p)}

\* does the server accept the text as a GTID set
GtidTextOk(s) ==
    s = EmptyStr \/ \A k \in 1..Len(Split(s, ",")) : FragmentOk(Split(s, ",")[k])

\* the transactions a GTID set text denotes
GtidTxns(s) ==
    IF s = EmptyStr THEN {}
    ELSE UNION {FragmentTxns(Split(s, ",")[k]) : k \in 1..Len(Split(s, ","))}

SetMin(ns) == CHOOSE n \in ns : \A m \in ns : n <= m

\* ":lo-hi:lo-hi..." for the numbers ns of one uuid
RECURSIVE renderIntervals(_)
renderIntervals(ns) ==
    IF ns = {} THEN EmptyStr
    ELSE LET lo == SetMin(ns)
             hi == CHOOSE h \in ns :
                       /\ h >= lo
                       /\ \A m \in lo..h : m \in ns
                       /\ (h + 1) \notin ns
         IN  <<":">> \o Itoa(lo)
               \o (IF hi = lo THEN EmptyStr ELSE <<"-">> \o Itoa(hi))
               \o renderIntervals({n \in ns : n > hi})

\* the canonical text of a set of transactions: uuids in order, joined by ","
RECURSIVE renderFrom(_, _, _)
renderFrom(txns, k, first) ==
    IF k > Len(UuidList) THEN EmptyStr
    ELSE LET ns == {t[2] : t \in {x \in txns : x[1] = UuidList[k]}}
         IN  IF ns = {} THEN renderFrom(txns, k + 1, first)
             ELSE (IF first THEN EmptyStr ELSE <<",">>)
                    \o UuidList[k] \o renderIntervals(ns)
                    \o renderFrom(txns, k + 1, FALSE)

GtidText(txns) == renderFrom(txns, 1, TRUE)

(***************************************************************************)
(* time.Parse("2006-01-02 15:04:05", s) and Time.Unix().                   *)
(***************************************************************************)
IsLeap(y) == (y % 4 = 0 /\ y % 100 # 0) \/ y % 400 = 0

DaysIn(y, m) == IF m = 2 THEN (IF IsLeap(y) THEN 29 ELSE 28)
                ELSE IF m \in {4, 6, 9, 11} THEN 30 ELSE 31

\* days from 1970-01-01 to y-m-d
DaysFromCivil(y, m, d) ==
    LET yy  == IF m <= 2 THEN y - 1 ELSE y
        era == yy \div 400
        yoe == yy - era * 400
        mp  == (m + 9) % 12
        doy == (153 * mp + 2) \div 5 + d - 1
        doe == yoe * 365 + yoe \div 4 - yoe \div 100 + doy
    IN  era * 146097 + doe - 719468

\* [err, unix]: the layout is yyyy-mm-dd, a space, h[h]:mm:ss
timeParse(s) ==
    LET sp == Split(s, " ")
        dt == IF Len(sp) = 2 THEN Split(sp[1], "-") ELSE << >>
        tm == IF Len(sp) = 2 THEN Split(sp[2], ":") ELSE << >>
        shape == /\ Len(sp) = 2
                 /\ Len(dt) = 3 /\ Len(tm) = 3
                 /\ Len(dt[1]) = 4 /\ Len(dt[2]) = 2 /\ Len(dt[3]) = 2
                 /\ Len(tm[1]) \in {1, 2} /\ Len(tm[2]) = 2 /\ Len(tm[3]) = 2
                 /\ \A k \in 1..3 : AllDigits(dt[k]) /\ AllDigits(tm[k])
        y  == DigitsVal(dt[1])
        mo == DigitsVal(dt[2])
        d  == DigitsVal(dt[3])
        h  == DigitsVal(tm[1])
        mi == DigitsVal(tm[2])
        se == DigitsVal(tm[3])
        range == /\ mo \in 1..12 /\ d >= 1 /\ d <= DaysIn(y, mo)
                 /\ h < 24 /\ mi < 60 /\ se < 60
    IN  IF shape /\ range
        THEN [err |-> FALSE,
              unix |-> DaysFromCivil(y, mo, d) * 86400 + h * 3600 + mi * 60 + se]
        ELSE [err |-> TRUE, unix |-> 0]

(***************************************************************************)
(* The object store (storage.Storage): objects by name; ListObjects        *)
(* answers in ascending byte order of the names.                           *)
(***************************************************************************)
\* the characters of object names, in byte order
AsciiOrder == <<"-", "0", "1", "2", "3", "4", "5", "6", "7", "8", "9", "_", "a", "b", "c", "d", "e", "f", "g", "h", "i", "j", "k", "l", "m", "n", "o", "p", "q", "r", "s", "t", "u", "v", "w", "x", "y", "z">>

CharRank(c) == CHOOSE k \in 1..Len(AsciiOrder) : AsciiOrder[k] = c

\* a < b in byte order
RECURSIVE LexLess(_, _)
LexLess(a, b) ==
    IF Len(a) = 0 THEN Len(b) > 0
    ELSE IF Len(b) = 0 THEN FALSE
    ELSE IF a[1] # b[1] THEN CharRank(a[1]) < CharRank(b[1])
    ELSE LexLess(Tail(a), Tail(b))

\* storage.ListObjects(ctx, prefix) over a store whose every name has the prefix
ListObjects(st) == [k \in 1..Len(st) |-> st[k].name]

HasObject(st, name) == \E k \in 1..Len(st) : st[k].name = name

ObjectOf(st, name) == st[CHOOSE k \in 1..Len(st) : st[k].name = name]

\* storage.GetObject(ctx, name): fails on a missing object, or when the
\* request itself fails (name \in broken)
GetObject(st, broken, name) ==
    IF HasObject(st, name) /\ name \notin broken
    THEN [err |-> FALSE, content |-> ObjectOf(st, name).content]
    ELSE [err |-> TRUE, content |-> EmptyStr]

(***************************************************************************)
(* The cluster gateway, pxc.                                               *)
(***************************************************************************)
\* PXC.SubtractGTIDSet: SELECT GTID_SUBTRACT(set, subSet); sqlOk is whether
\* the query is answered at all
SubtractGTIDSet(sqlOk, set, subSet) ==
    IF sqlOk /\ GtidTextOk(set) /\ GtidTextOk(subSet)
    THEN [err |-> FALSE, val |-> GtidText(GtidTxns(set) \ GtidTxns(subSet))]
    ELSE [err |-> TRUE, val |-> EmptyStr]

\* PXC.GetCurrentGTIDSet: SELECT @@GLOBAL.gtid_executed
GetCurrentGTIDSet(sqlOk, executed) ==
    IF sqlOk THEN [err |-> FALSE, val |-> GtidText(executed)]
    ELSE [err |-> TRUE, val |-> EmptyStr]

\* the helper functions the gateway creates on the server, by the names it
\* gives mysql.func
getGtidSetByBinlog == "get_gtid_set_by_binlog"
getFirstRecordTimestampByBinlog == "get_first_record_timestamp_by_binlog"
getLastRecordTimestampByBinlog == "get_last_record_timestamp_by_binlog"
getBinlogByGtidSet == "get_binlog_by_gtid_set"

LazyHelpers ==
    {getGtidSetByBinlog, getFirstRecordTimestampByBinlog, getLastRecordTimestampByBinlog}

NoCreates == [h \in LazyHelpers |-> [issued |-> 0, done |-> 0]]

\* lazyInstall creating the function without looking for it in mysql.func
lazyInstallUnchecked(fs, cr, h, checkOk, createOk) ==
    IF createOk
    THEN [err |-> "", funcs |-> fs \cup {h},
          creates |-> [cr EXCEPT ![h] = [issued |-> @.issued + 1, done |-> @.done + 1]]]
    ELSE [err |-> "create function", funcs |-> fs,
          creates |-> [cr EXCEPT ![h].issued = @ + 1]]

\* the head of GetGTIDSet, GetBinLogFirstTimestamp and GetBinLogLastTimestamp:
\* select name from mysql.func where name = h (checkOk: the query is
\* answered, with a row or with sql.ErrNoRows), then CREATE FUNCTION h when
\* no name came back (createOk: the server creates it)
lazyInstall(fs, cr, h, checkOk, createOk) ==
    IF ~checkOk THEN [err |-> "get udf name", funcs |-> fs, creates |-> cr]
    ELSE IF h \in fs THEN [err |-> "", funcs |-> fs, creates |-> cr]
    ELSE IF createOk
    THEN [err |-> "", funcs |-> fs \cup {h},
          creates |-> [cr EXCEPT ![h] = [issued |-> @.issued + 1, done |-> @.done + 1]]]
    ELSE [err |-> "create function", funcs |-> fs,
          creates |-> [cr EXCEPT ![h].issued = @ + 1]]

\* the functions DropCollectorFunctions drops, in its order
DropList == <<getFirstRecordTimestampByBinlog, getBinlogByGtidSet, getGtidSetByBinlog>>

\* PXC.DropCollectorFunctions: DROP FUNCTION IF EXISTS for each of DropList;
\* failAt is the statement that fails, 0 when none does
dropCollectorFunctions(fs, failAt) ==
    LET ran == {DropList[k] : k \in {j \in 1..Len(DropList) : failAt = 0 \/ j < failAt}}
    IN  [err |-> IF failAt = 0 THEN ""
                 ELSE "drop " \o DropList[failAt] \o " function",
         funcs |-> fs \ ran,
         dropped |-> ran]

(***************************************************************************)
(* recoverer.go: pure helpers.                                             *)
(***************************************************************************)
\* getExtendGTIDSet ending the range at the first number of the segment's
\* interval (eidx left at 0)
getExtendGTIDSetFromLow(gtidSet, gtid) ==
    LET s    == Split(gtidSet, ":")
        e    == Split(s[2], "-")
        gs   == Split(gtid, ":")
        es   == Split(gs[2], "-")
    IN  IF gtidSet = gtid THEN [err |-> FALSE, val |-> gtid]
        ELSE IF Len(s) < 2 THEN [err |-> TRUE, val |-> EmptyStr]
        ELSE IF Len(gs) < 2 THEN [err |-> TRUE, val |-> EmptyStr]
        ELSE [err |-> FALSE, val |-> gs[1] \o <<":">> \o es[1] \o <<"-">> \o e[1]]

getExtendGTIDSet(gtidSet, gtid) ==
    LET s    == Split(gtidSet, ":")
        e    == Split(s[2], "-")
        eidx == IF Len(e) = 1 THEN 1 ELSE 2
        gs   == Split(gtid, ":")
        es   == Split(gs[2], "-")
    IN  IF gtidSet = gtid THEN [err |-> FALSE, val |-> gtid]
        ELSE IF Len(s) < 2 THEN [err |-> TRUE, val |-> EmptyStr]
        ELSE IF Len(gs) < 2 THEN [err |-> TRUE, val |-> EmptyStr]
        ELSE [err |-> FALSE, val |-> gs[1] \o <<":">> \o es[1] \o <<"-">> \o e[eidx]]

\* strings.HasPrefix, strings.TrimPrefix, strings.TrimSuffix
HasPrefix(s, prefix) ==
    Len(s) >= Len(prefix) /\ SubSeq(s, 1, Len(prefix)) = prefix

TrimPrefix(s, prefix) ==
    IF HasPrefix(s, prefix) THEN SubSeq(s, Len(prefix) + 1, Len(s)) ELSE s

TrimSuffix(s, suffix) ==
    IF Len(s) >= Len(suffix) /\ SubSeq(s, Len(s) - Len(suffix) + 1, Len(s)) = suffix
    THEN SubSeq(s, 1, Len(s) - Len(suffix)) ELSE s

\* strings.Index for a one-character sep, from 1; 0 when it is not in s
Index(s, sep) ==
    IF \E k \in 1..Len(s) : s[k] = sep
    THEN CHOOSE k \in 1..Len(s) : s[k] = sep /\ \A j \in 1..(k - 1) : s[j] # sep
    ELSE 0

\* the characters of a URL scheme
SchemeChars == {"a", "b", "c", "d", "e", "f", "g", "h", "i", "j", "k", "l", "m",
                "n", "o", "p", "q", "r", "s", "t", "u", "v", "w", "x", "y", "z"}
               \cup {d \in {"0", "1", "2", "3", "4", "5", "6", "7", "8", "9"} : IsDigit(d)}
               \cup {"+", "-", "."}

\* url.Parse on what a bucket URL holds (no query, fragment, user or escape):
\* the scheme before the first ":" when only scheme characters precede it,
\* the host between "//" and the next "/", the path from there on
urlParse(s) ==
    LET colon  == Index(s, ":")
        scheme == IF colon > 1 /\ \A k \in 1..(colon - 1) : s[k] \in SchemeChars
                  THEN SubSeq(s, 1, colon - 1) ELSE EmptyStr
        rest   == IF Len(scheme) > 0 THEN SubSeq(s, colon + 1, Len(s)) ELSE s
        auth   == IF HasPrefix(rest, <<"/", "/">>) THEN SubSeq(rest, 3, Len(rest)) ELSE EmptyStr
        slash  == Index(auth, "/")
    IN  IF Len(scheme) = 0 /\ colon > 0 /\ (Index(s, "/") = 0 \/ colon < Index(s, "/"))
        THEN [err |-> TRUE, Scheme |-> EmptyStr, Host |-> EmptyStr, Path |-> EmptyStr]
        ELSE IF HasPrefix(rest, <<"/", "/">>)
        THEN [err |-> FALSE, Scheme |-> scheme,
              Host |-> IF slash = 0 THEN auth ELSE SubSeq(auth, 1, slash - 1),
              Path |-> IF slash = 0 THEN EmptyStr ELSE SubSeq(auth, slash, Len(auth))]
        ELSE [err |-> FALSE, Scheme |-> scheme, Host |-> EmptyStr, Path |-> rest]

\* getBucketAndPrefix: [err, bucket, prefix]
getBucketAndPrefix(bucketURL) ==
    LET u == urlParse(bucketURL)
        path == TrimPrefix(TrimSuffix(u.Path, <<"/">>), <<"/">>)
        bucketArr == Split(path, "/")
        prefix == IF Len(bucketArr) > 1
                  THEN TrimPrefix(path, bucketArr[1] \o <<"/">>) \o <<"/">>
                  ELSE EmptyStr
    IN  IF u.err THEN [err |-> TRUE, bucket |-> EmptyStr, prefix |-> EmptyStr]
        ELSE IF Len(u.Scheme) > 0 /\ u.Scheme = <<"s", "3">>
        THEN [err |-> FALSE, bucket |-> u.Host, prefix |-> path \o <<"/">>]
        ELSE IF Len(bucketArr[1]) = 0
        THEN [err |-> TRUE, bucket |-> bucketArr[1], prefix |-> prefix]
        ELSE [err |-> FALSE, bucket |-> bucketArr[1], prefix |-> prefix]

\* the Transaction branch of New; startGTID is the local that New declares
\* and never assigns.  "" when the branch passes, else the error.
newTransactionCheck(startGTID, GTID) ==
    LET gtidSplitted == Split(startGTID, ":")
        setSplitted  == Split(gtidSplitted[2], "-")
        lastSet      == setSplitted[IF Len(setSplitted) = 1 THEN 1 ELSE 2]
        lastSetInt   == ParseInt(lastSet)
        transactionNum == ParseInt(Split(GTID, ":")[2])
    IN  IF Len(gtidSplitted) # 2 THEN "Invalid start gtidset provided"
        ELSE IF lastSetInt.err THEN "failed to cast last set value to in"
        ELSE IF transactionNum.err THEN "failed to parse transaction num to restore"
        ELSE IF transactionNum.val < lastSetInt.val
             THEN "Can't restore to transaction before backup"
        ELSE ""

\* the Transaction branch of the loop body of setBinlogs: the error if any,
\* r.gtidSet after it, and whether the segment is passed over
transactionGate(rr, sqlOk, binlogGTIDSet, gtidSet) ==
    LET subResult == SubtractGTIDSet(sqlOk, binlogGTIDSet, rr.gtid)
        set == getExtendGTIDSet(binlogGTIDSet, rr.gtid)
    IN  IF ~(Len(rr.gtid) > 0 /\ rr.recoverType = Transaction)
        THEN [err |-> "", gtidSet |-> gtidSet, skip |-> FALSE]
        ELSE IF subResult.err
        THEN [err |-> "check if binlog set is a subset of gtid",
              gtidSet |-> gtidSet, skip |-> FALSE]
        ELSE IF subResult.val = binlogGTIDSet
        THEN [err |-> "", gtidSet |-> gtidSet, skip |-> Len(gtidSet) = 0]
        ELSE IF set.err
        THEN [err |-> "get gtid set for extend", gtidSet |-> gtidSet, skip |-> FALSE]
        ELSE [err |-> "", gtidSet |-> set.val, skip |-> Len(set.val) = 0]

\* overlapCheck stopping the walk at a segment all of whose transactions
\* are in startGTID
overlapCheckStopsOnSubset(rr, sqlOk, binlogGTIDSet) ==
    LET subResult == SubtractGTIDSet(sqlOk, binlogGTIDSet, rr.startGTID)
    IN  IF subResult.err
        THEN [err |-> "check if start gtid is a subset of binlog set", stop |-> TRUE]
        ELSE [err |-> "", stop |-> subResult.val = EmptyStr]

\* the end of the loop body of setBinlogs: the error if any, and whether the
\* walk stops at this segment
overlapCheck(rr, sqlOk, binlogGTIDSet) ==
    LET subResult == SubtractGTIDSet(sqlOk, rr.startGTID, binlogGTIDSet)
    IN  IF subResult.err
        THEN [err |-> "check if start gtid is a subset of binlog set", stop |-> TRUE]
        ELSE [err |-> "", stop |-> subResult.val # rr.startGTID]

\* walkStep ending the walk with an error when the sidecar cannot be fetched
walkStepFailsOnGet(rr, st, broken, unread, sqlOk, binlog, acc) ==
    LET infoObj == GetObject(st, broken, binlog \o gtidSetSuffix)
        gate == transactionGate(rr, sqlOk, infoObj.content, acc.gtidSet)
        over == overlapCheck(rr, sqlOk, infoObj.content)
    IN  IF Contains(binlog, gtidSetSuffix) THEN acc
        ELSE IF infoObj.err
        THEN [acc EXCEPT !.gets = @ + 1, !.err = "get object with gtid set",
                         !.more = FALSE]
        ELSE IF (binlog \o gtidSetSuffix) \in unread
        THEN [acc EXCEPT !.gets = @ + 1, !.err = "read gtid-set object", !.more = FALSE]
        ELSE IF gate.err # "" \/ gate.skip
        THEN [acc EXCEPT !.gets = @ + 1, !.err = gate.err, !.gtidSet = gate.gtidSet,
                         !.more = gate.err = ""]
        ELSE [acc EXCEPT !.gets = @ + 1, !.err = over.err, !.gtidSet = gate.gtidSet,
                         !.binlogs = Append(@, binlog), !.more = ~over.stop]

\* one pass of the loop body of setBinlogs for a listed name: acc holds the
\* binlogs, r.gtidSet and the gets so far; more: whether the loop goes on
walkStep(rr, st, broken, unread, sqlOk, binlog, acc) ==
    LET infoObj == GetObject(st, broken, binlog \o gtidSetSuffix)
        gate == transactionGate(rr, sqlOk, infoObj.content, acc.gtidSet)
        over == overlapCheck(rr, sqlOk, infoObj.content)
    IN  IF Contains(binlog, gtidSetSuffix) THEN acc
        ELSE IF infoObj.err THEN [acc EXCEPT !.gets = @ + 1]
        ELSE IF (binlog \o gtidSetSuffix) \in unread
        THEN [acc EXCEPT !.gets = @ + 1, !.err = "read gtid-set object", !.more = FALSE]
        ELSE IF gate.err # "" \/ gate.skip
        THEN [acc EXCEPT !.gets = @ + 1, !.err = gate.err, !.gtidSet = gate.gtidSet,
                         !.more = gate.err = ""]
        ELSE [acc EXCEPT !.gets = @ + 1, !.err = over.err, !.gtidSet = gate.gtidSet,
                         !.binlogs = Append(@, binlog), !.more = ~over.stop]

\* the loop of setBinlogs over the reversed listing, from position k on
RECURSIVE walk(_, _, _, _, _, _, _, _)
walk(rr, st, broken, unread, sqlOk, list, k, acc) ==
    IF k > Len(list) \/ ~acc.more THEN acc
    ELSE walk(rr, st, broken, unread, sqlOk, list, k + 1,
              walkStep(rr, st, broken, unread, sqlOk, list[k], acc))

\* planOf without the reverse(binlogs) that ends setBinlogs
planOfUnreversed(rr, w) ==
    IF w.err # "" THEN [w EXCEPT !.binlogs = rr.binlogs]
    ELSE IF Len(w.binlogs) = 0
    THEN [w EXCEPT !.err = "no objects for prefix binlog_ or with gtid",
                   !.binlogs = rr.binlogs]
    ELSE w

\* planOf without the len(binlogs) == 0 test
planOfAllowsEmpty(rr, w) ==
    IF w.err # "" THEN [w EXCEPT !.binlogs = rr.binlogs]
    ELSE [w EXCEPT !.binlogs = reverse(w.binlogs)]

\* the end of setBinlogs: w is what the loop left; on an error r.binlogs stays
planOf(rr, w) ==
    IF w.err # "" THEN [w EXCEPT !.binlogs = rr.binlogs]
    ELSE IF Len(w.binlogs) = 0
    THEN [w EXCEPT !.err = "no objects for prefix binlog_ or with gtid",
                   !.binlogs = rr.binlogs]
    ELSE [w EXCEPT !.binlogs = reverse(w.binlogs)]

\* Recoverer.setBinlogs: [err, binlogs, gtidSet, lists, gets]
setBinlogs(rr, st, listOk, broken, unread, sqlOk) ==
    planOf(rr,
        IF ~listOk
        THEN [err |-> "list objects with prefix 'binlog_'", binlogs |-> << >>,
              gtidSet |-> rr.gtidSet, lists |-> 1, gets |-> 0, more |-> FALSE]
        ELSE walk(rr, st, broken, unread, sqlOk, reverse(ListObjects(st)), 1,
                  [err |-> "", binlogs |-> << >>, gtidSet |-> rr.gtidSet,
                   lists |-> 1, gets |-> 0, more |-> TRUE]))

(***************************************************************************)
(* Inputs: the request, the archive and the cluster's executed set.        *)
(***************************************************************************)
uuidU == <<"u">>

\* the transactions u:lo-hi
Range(lo, hi) == {<<uuidU, n>> : n \in lo..hi}

\* "u:n", a target transaction (PITR_GTID)
TargetGtid(n) == uuidU \o <<":">> \o Itoa(n)

\* strictly increasing cut points c[1] < ... < c[n] in 1..MaxTxn
Cuts(n) == {c \in [1..n -> 1..MaxTxn] : \A a, b \in 1..n : a < b => c[a] < c[b]}

\* the sidecar texts of n segments cut at c: cumulative ("cum": u:1-c[k], each
\* a superset of the one before) or per segment ("seg": u:c[k-1]+1-c[k])
SidecarTexts(kind, c, n) ==
    [k \in 1..n |->
        GtidText(Range(IF kind = "cum" \/ k = 1 THEN 1 ELSE c[k - 1] + 1, c[k]))]

\* the name-embedded timestamps of n segments: ascending; the last one
\* shorter (byte order is not numeric order); the second one not a number
Timestamps(scheme, n) ==
    [k \in 1..n |->
        IF scheme = "short" /\ k = n THEN <<"9", "9", "9">>
        ELSE IF scheme = "nan" /\ k = 2 THEN <<"1", "x">>
        ELSE Itoa(1000 * k)]

SegmentName(ts) == binlogPrefix \o ts \o <<"_", "s">>

\* the store of n segments: each blob (when blobs) followed by its sidecar
Archive(ts, texts, n, blobs) ==
    IF blobs
    THEN [k \in 1..(2 * n) |->
            IF k % 2 = 1
            THEN [name |-> SegmentName(ts[(k + 1) \div 2]), content |-> EmptyStr]
            ELSE [name |-> SegmentName(ts[k \div 2]) \o gtidSetSuffix,
                  content |-> texts[k \div 2]]]
    ELSE [k \in 1..n |->
            [name |-> SegmentName(ts[k]) \o gtidSetSuffix, content |-> texts[k]]]

Sorted(st) == \A k \in 1..(Len(st) - 1) : LexLess(st[k].name, st[k + 1].name)

\* the archives of up to MaxSegs segments
Archives(schemes, kinds, blobOpts) ==
    UNION {{Archive(Timestamps(sc, n), SidecarTexts(kd, c, n), n, bl) :
               sc \in schemes, kd \in kinds, bl \in blobOpts, c \in Cuts(n)} :
           n \in 0..MaxSegs}

\* PITR_DATE values: 600, 1000, 2000 and 3000 seconds after the epoch (the
\* last with a one-digit hour), and a date that does not parse
RecoverTimes ==
    { <<"1", "9", "7", "0", "-", "0", "1", "-", "0", "1", " ", "0", "0", ":", "1", "0", ":", "0", "0">>,
      <<"1", "9", "7", "0", "-", "0", "1", "-", "0", "1", " ", "0", "0", ":", "1", "6", ":", "4", "0">>,
      <<"1", "9", "7", "0", "-", "0", "1", "-", "0", "1", " ", "0", "0", ":", "3", "3", ":", "2", "0">>,
      <<"1", "9", "7", "0", "-", "0", "1", "-", "0", "1", " ", "0", ":", "5", "0", ":", "0", "0">>,
      <<"1", "9", "7", "0", "-", "1", "3", "-", "0", "1", " ", "0", "0", ":", "0", "0", ":", "0", "0">> }

Request(types, times, gtids) ==
    [RecoverType : types, RecoverTime : times, GTID : gtids]

\* the requests (Config) with the archive and the executed set they meet
Requests ==
    (Request({Latest}, {EmptyStr}, {EmptyStr})
        \X Archives({"asc"}, {"cum", "seg"}, {TRUE}) \X {Range(1, k) : k \in 0..MaxTxn})
    \cup (Request({Latest, "bogus"}, {EmptyStr}, {EmptyStr})
        \X Archives({"asc"}, {"seg"}, BOOLEAN) \X {Range(1, 0)})
    \cup (Request({Skip}, {EmptyStr}, {TargetGtid(2), TargetGtid(MaxTxn)})
        \X Archives({"asc"}, {"seg"}, {TRUE}) \X {Range(1, k) : k \in 0..1})
    \cup (Request({Transaction}, {EmptyStr}, {TargetGtid(2), TargetGtid(MaxTxn)})
        \X Archives({"asc"}, {"seg"}, {TRUE}) \X {Range(1, k) : k \in 0..MaxTxn})
    \cup (Request({Date}, RecoverTimes, {EmptyStr})
        \X Archives({"asc", "short", "nan"}, {"seg"}, {TRUE}) \X {Range(1, 0)})

\* the zero time.Time: Recoverer.recoverEndTime before Run sets it (its
\* seconds from the epoch are below the numbers TLC holds; it is never read)
ZeroTime == "zero time"

NoRecoverer == [recoverType |-> "", recoverTime |-> EmptyStr, gtid |-> EmptyStr,
                binlogs |-> << >>, gtidSet |-> EmptyStr, startGTID |-> EmptyStr,
                recoverFlag |-> EmptyStr, recoverEndTime |-> ZeroTime]

NoClient == [state |-> "none", code |-> 0, waited |-> FALSE]

\* no call made on the gateway yet; n counts the calls
NoGatewayCall == [n |-> 0, op |-> "", helper |-> "", present |-> FALSE,
                  created |-> FALSE, err |-> ""]

\* no pure helper called yet
NoCall == [fn |-> "", args |-> << >>, ret |-> << >>]

VARIABLES
    cfg,          \* Config: RecoverType, RecoverTime, GTID
    store,        \* the object store: objects in listing order
    gtidExecuted, \* the cluster: @@GLOBAL.gtid_executed, a set of transactions
    r,            \* the Recoverer
    pc,           \* where the program is
    db,           \* r.db's connection: "nil", "open", "closed"
    storeCalls,   \* what the program has asked of the store: lists, gets
    dropCalls,    \* calls of DropCollectorFunctions
    readEnd,      \* mysqlStdin:   "none", "open", "closed"
    writeEnd,     \* binlogStdout: "none", "open", "closed"
    writeCloses,  \* calls of binlogStdout.Close
    client,       \* mysqlCmd: state "none", "running", "exited"; code; waited
    decoders,     \* the mysqlbinlog commands run, in order
    i,            \* the loop index of recover, from 1
    failedGets,   \* the sidecars whose get failed in setBinlogs (the log)
    fetched,      \* the segments recover has asked of the store, in order
    newErr,       \* what New returned: "pending", "" (nil), or the error
    runErr,       \* what Run returned: "pending", "" (nil), or the error
    funcs,        \* the cluster: the names registered in mysql.func
    cancelled,    \* ctx: whether the context is done
    signalled,    \* the children that were running when ctx was done
    creates,      \* the CREATE FUNCTION statements issued, by helper
    gwCall,       \* the last call on the gateway and what it returned
    call          \* the last call of a pure helper and what it returned

recovery == <<cfg, store, gtidExecuted, r, pc, db, storeCalls, dropCalls,
              readEnd, writeEnd, writeCloses, client, decoders, i, failedGets,
              fetched, newErr, runErr>>

vars == <<recovery, funcs, cancelled, signalled, creates, gwCall, call>>

env == <<cfg, store, gtidExecuted>>
ctx == <<cancelled, signalled>>
aside == <<creates, gwCall, call>>
pipeline == <<dropCalls, readEnd, writeEnd, writeCloses, client, decoders, i, fetched>>

Init ==
    /\ \E q \in Requests :
        /\ Sorted(q[2])
        /\ cfg = q[1]
        /\ store = q[2]
        /\ gtidExecuted = q[3]
    /\ r = NoRecoverer
    /\ pc = "New"
    /\ db = "nil"
    /\ storeCalls = [lists |-> 0, gets |-> 0]
    /\ dropCalls = 0
    /\ readEnd = "none"
    /\ writeEnd = "none"
    /\ writeCloses = 0
    /\ client = NoClient
    /\ decoders = << >>
    /\ i = 0
    /\ failedGets = {}
    /\ fetched = << >>
    /\ newErr = "pending"
    /\ runErr = "pending"
    /\ funcs \in {{}, LazyHelpers}
    /\ cancelled = FALSE
    /\ signalled = {}
    /\ creates = NoCreates
    /\ gwCall = NoGatewayCall
    /\ call = NoCall

(***************************************************************************)
(* New                                                                     *)
(***************************************************************************)
\* New(ctx, c): storageOk is whether c.storage(ctx) builds the store client
New ==
    /\ pc = "New"
    /\ \E storageOk \in BOOLEAN :
        LET check == IF cfg.RecoverType = Transaction
                     THEN newTransactionCheck(EmptyStr, cfg.GTID) ELSE ""
            err == IF ~storageOk THEN "new binlog storage manager" ELSE check
        IN  /\ newErr' = err
            /\ IF err = ""
               THEN /\ r' = [NoRecoverer EXCEPT !.recoverTime = cfg.RecoverTime,
                                                !.recoverType = cfg.RecoverType,
                                                !.gtid = cfg.GTID]
                    /\ pc' = "Run"
               ELSE /\ r' = r
                    /\ pc' = "exit"
    /\ UNCHANGED <<env, aside, funcs, ctx, db, storeCalls, failedGets, pipeline, runErr>>

(***************************************************************************)
(* Run                                                                     *)
(***************************************************************************)
\* Run returns err: nothing is deferred in Run
RunReturns(err) ==
    /\ runErr' = err
    /\ pc' = "exit"

\* r.db, err = pxc.NewPXC(...)
NewPXC ==
    /\ pc = "Run"
    /\ \E ok \in BOOLEAN :
        IF ok THEN db' = "open" /\ pc' = "GetCurrentGTIDSet" /\ runErr' = runErr
        ELSE db' = db /\ RunReturns("new manager with host")
    /\ UNCHANGED <<env, aside, funcs, ctx, r, storeCalls, failedGets, pipeline, newErr>>

\* r.startGTID, err = r.db.GetCurrentGTIDSet(ctx)
ReadStartGTID ==
    /\ pc = "GetCurrentGTIDSet"
    /\ \E sqlOk \in BOOLEAN :
        LET g == GetCurrentGTIDSet(sqlOk, gtidExecuted)
        IN  /\ r' = [r EXCEPT !.startGTID = g.val]
            /\ IF g.err THEN RunReturns("get start GTID")
               ELSE pc' = "setBinlogs" /\ runErr' = runErr
    /\ UNCHANGED <<env, aside, funcs, ctx, db, storeCalls, failedGets, pipeline, newErr>>

SidecarNames ==
    {store[k].name : k \in {j \in 1..Len(store) : Contains(store[j].name, gtidSetSuffix)}}

\* what can go wrong while planning: any sidecars' gets fail; or one
\* sidecar's read fails; or the listing fails; or the SQL fails
PlanFaults ==
    [listOk : {TRUE}, sqlOk : {TRUE}, broken : SUBSET SidecarNames, unread : {{}}]
    \cup [listOk : {TRUE}, sqlOk : {TRUE}, broken : {{}},
          unread : {{n} : n \in SidecarNames}]
    \cup [listOk : {FALSE}, sqlOk : {TRUE}, broken : {{}}, unread : {{}}]
    \cup [listOk : {TRUE}, sqlOk : {FALSE}, broken : {{}}, unread : {{}}]

\* Run after setBinlogs has answered p
planned(p) ==
    /\ r' = [r EXCEPT !.binlogs = p.binlogs, !.gtidSet = p.gtidSet]
    /\ storeCalls' = [lists |-> storeCalls.lists + p.lists,
                      gets |-> storeCalls.gets + p.gets]
    /\ IF p.err # "" THEN RunReturns("get binlog list: " \o p.err)
       ELSE pc' = "switch" /\ runErr' = runErr

\* err = r.setBinlogs(ctx)
SetBinlogs ==
    /\ pc = "setBinlogs"
    /\ \E f \in PlanFaults :
        /\ planned(setBinlogs(r, store, f.listOk, f.broken, f.unread, f.sqlOk))
        /\ failedGets' = f.broken
    /\ UNCHANGED <<env, aside, funcs, ctx, db, pipeline, newErr>>

\* case Date of the switch, endTime being what time.Parse answered
caseDate(endTime) ==
    /\ r' = [r EXCEPT
              !.recoverFlag = stopDatetimeOpt \o r.recoverTime \o quoteChar,
              !.recoverEndTime = IF endTime.err THEN r.recoverEndTime ELSE endTime.unix]
    /\ IF endTime.err THEN RunReturns("parse date")
       ELSE pc' = "recover" /\ runErr' = runErr

\* SwitchRecoverType building the --stop-datetime flag in case Latest too
SwitchLatestTakesStopFlag ==
    /\ pc = "switch"
    /\ CASE r.recoverType = Date -> caseDate(timeParse(r.recoverTime))
         [] r.recoverType = Latest ->
              /\ r' = [r EXCEPT !.recoverFlag =
                                   stopDatetimeOpt \o r.recoverTime \o quoteChar]
              /\ pc' = "recover" /\ runErr' = runErr
         [] OTHER ->
              /\ r' = r
              /\ RunReturns("wrong recover type")
    /\ UNCHANGED <<env, aside, funcs, ctx, db, storeCalls, failedGets, pipeline, newErr>>

\* switch r.recoverType: the cut-off flag (the cases Skip and Transaction
\* are commented out in the code and fall to default)
SwitchRecoverType ==
    /\ pc = "switch"
    /\ CASE r.recoverType = Date -> caseDate(timeParse(r.recoverTime))
         [] r.recoverType = Latest ->
              /\ r' = r
              /\ pc' = "recover" /\ runErr' = runErr
         [] OTHER ->
              /\ r' = r
              /\ RunReturns("wrong recover type")
    /\ UNCHANGED <<env, aside, funcs, ctx, db, storeCalls, failedGets, pipeline, newErr>>

(***************************************************************************)
(* recover                                                                 *)
(***************************************************************************)
\* recover returns err to Run, which returns it wrapped; the deferred
\* mysqlStdin.Close() runs once the pipe exists
RecoverReturns(err) ==
    /\ RunReturns(IF err = "" THEN "" ELSE "recover: " \o err)
    /\ readEnd' = IF readEnd = "none" THEN readEnd ELSE "closed"

\* dropped going on to the client whatever DropCollectorFunctions answered
droppedIgnoresError(d) ==
    /\ funcs' = d.funcs
    /\ pc' = "startClient" /\ UNCHANGED <<runErr, readEnd>>

\* recover after DropCollectorFunctions has answered d
dropped(d) ==
    /\ funcs' = d.funcs
    /\ IF d.err = "" THEN pc' = "startClient" /\ UNCHANGED <<runErr, readEnd>>
       ELSE RecoverReturns("drop collector funcs")

\* err = r.db.DropCollectorFunctions(ctx); with ctx done the first statement
\* fails
DropCollectorFunctions ==
    /\ pc = "recover"
    /\ dropCalls' = dropCalls + 1
    /\ \E failAt \in 0..Len(DropList) :
        /\ cancelled => failAt = 1
        /\ dropped(dropCollectorFunctions(funcs, failAt))
    /\ UNCHANGED <<env, aside, ctx, r, db, storeCalls, failedGets, writeEnd, writeCloses,
                   client, decoders, i, fetched, newErr>>

\* os.Setenv, io.Pipe(), defer mysqlStdin.Close(), mysqlCmd.Start()
StartClient ==
    /\ pc = "startClient"
    /\ \E setenvOk, startOk \in BOOLEAN :
        /\ cancelled => ~startOk
        /\ IF ~setenvOk
           THEN /\ RecoverReturns("set mysql pwd env var")
                /\ UNCHANGED <<writeEnd, client, i>>
           ELSE IF ~startOk
           THEN /\ RunReturns("recover: start mysql")
                /\ readEnd' = "closed"
                /\ writeEnd' = "open"
                /\ UNCHANGED <<client, i>>
           ELSE /\ readEnd' = "open"
                /\ writeEnd' = "open"
                /\ client' = [state |-> "running", code |-> 0, waited |-> FALSE]
                /\ i' = 1
                /\ pc' = "loop"
                /\ runErr' = runErr
    /\ UNCHANGED <<env, aside, funcs, ctx, r, db, storeCalls, failedGets,
                   dropCalls, writeCloses, decoders, fetched, newErr>>

\* dateCheck breaking at binlogTime >= recoverEndTime.Unix()
dateCheckBreaksAtEqual(rr, binlog) ==
    LET binlogArr  == Split(binlog, "_")
        binlogTime == ParseInt(binlogArr[2])
    IN  IF rr.recoverType # Date THEN "go"
        ELSE IF Len(binlogArr) < 2 THEN "get timestamp from binlog name"
        ELSE IF binlogTime.err THEN "get binlog time"
        ELSE IF binlogTime.val >= rr.recoverEndTime THEN "break"
        ELSE "go"

\* the Date branch at the head of the loop body: "go", "break", or the error
dateCheck(rr, binlog) ==
    LET binlogArr  == Split(binlog, "_")
        binlogTime == ParseInt(binlogArr[2])
    IN  IF rr.recoverType # Date THEN "go"
        ELSE IF Len(binlogArr) < 2 THEN "get timestamp from binlog name"
        ELSE IF binlogTime.err THEN "get binlog time"
        ELSE IF binlogTime.val > rr.recoverEndTime THEN "break"
        ELSE "go"

\* the loop body after the Date branch answered check: the fetch and the
\* start of the decoder (out: whether it will write to the pipe)
loopBody(binlog, check) ==
    IF check = "break"
    THEN /\ pc' = "closeWrite"
         /\ UNCHANGED <<runErr, readEnd, decoders, fetched>>
    ELSE IF check # "go"
    THEN /\ RecoverReturns(check)
         /\ UNCHANGED <<decoders, fetched>>
    ELSE /\ fetched' = Append(fetched, binlog)
         /\ \E getOk, startOk, out \in BOOLEAN :
             /\ cancelled => ~startOk
             /\ IF ~getOk
                THEN RecoverReturns("get obj") /\ decoders' = decoders
                ELSE IF ~startOk
                THEN RecoverReturns("run mysqlbinlog") /\ decoders' = decoders
                ELSE /\ decoders' = Append(decoders,
                           [binlog |-> binlog,
                            cmd |-> decoderCmd \o r.recoverFlag \o decoderStdinArg,
                            out |-> out, state |-> "running", code |-> 0])
                     /\ pc' = "decoder"
                     /\ UNCHANGED <<runErr, readEnd>>

\* one pass of the loop of recover up to the start of cmd.Run, or its end
NextSegment ==
    /\ pc = "loop"
    /\ IF i > Len(r.binlogs)
       THEN /\ pc' = "closeWrite"
            /\ UNCHANGED <<runErr, readEnd, decoders, fetched>>
       ELSE loopBody(r.binlogs[i], dateCheck(r, r.binlogs[i]))
    /\ UNCHANGED <<env, aside, funcs, ctx, r, db, storeCalls, failedGets, dropCalls, writeEnd,
                   writeCloses, client, i, newErr>>

\* DecoderExit going on with the loop whatever the exit code
DecoderExitIgnoresCode ==
    /\ pc = "decoder"
    /\ LET d == decoders[Len(decoders)]
       IN  /\ d.out => client.state = "running"
           /\ \E code \in {0, 1} :
               /\ decoders' = [decoders EXCEPT ![Len(decoders)] =
                                  [d EXCEPT !.state = "exited", !.code = code]]
               /\ i' = i + 1 /\ pc' = "loop" /\ UNCHANGED <<runErr, readEnd>>
    /\ UNCHANGED <<env, aside, funcs, ctx, r, db, storeCalls, failedGets, dropCalls, writeEnd,
                   writeCloses, client, fetched, newErr>>

\* cmd.Run returns: the decoder has exited and what it wrote has been read
\* by the client's input copier, which reads only while the client lives
DecoderExit ==
    /\ pc = "decoder"
    /\ LET d == decoders[Len(decoders)]
       IN  /\ d.out => client.state = "running"
           /\ \E code \in {0, 1} :
               /\ decoders' = [decoders EXCEPT ![Len(decoders)] =
                                  [d EXCEPT !.state = "exited", !.code = code]]
               /\ IF code = 0
                  THEN i' = i + 1 /\ pc' = "loop" /\ UNCHANGED <<runErr, readEnd>>
                  ELSE RecoverReturns("run mysqlbinlog") /\ i' = i
    /\ UNCHANGED <<env, aside, funcs, ctx, r, db, storeCalls, failedGets, dropCalls, writeEnd,
                   writeCloses, client, fetched, newErr>>

\* binlogStdout.Close(): closing an io.Pipe writer returns nil
CloseWrite ==
    /\ pc = "closeWrite"
    /\ writeEnd' = "closed"
    /\ writeCloses' = writeCloses + 1
    /\ pc' = "waitClient"
    /\ UNCHANGED <<env, aside, funcs, ctx, r, db, storeCalls, failedGets, dropCalls, readEnd,
                   client, decoders, i, fetched, newErr, runErr>>

\* mysqlCmd.Wait() returns once the client has exited
WaitClient ==
    /\ pc = "waitClient"
    /\ client.state = "exited"
    /\ client' = [client EXCEPT !.waited = TRUE]
    /\ RecoverReturns(IF client.code = 0 THEN "" ELSE "wait mysql")
    /\ UNCHANGED <<env, aside, funcs, ctx, r, db, storeCalls, failedGets, dropCalls, writeEnd,
                   writeCloses, decoders, i, fetched, newErr>>

\* the mysql client exits: with 0 once its input has ended, with an error
\* at any time
ClientExit ==
    /\ client.state = "running"
    /\ \E code \in {0, 1} :
        /\ code = 0 => (writeEnd = "closed" \/ readEnd = "closed")
        /\ client' = [client EXCEPT !.state = "exited", !.code = code]
    /\ UNCHANGED <<env, aside, funcs, ctx, r, pc, db, storeCalls, failedGets, dropCalls, readEnd,
                   writeEnd, writeCloses, decoders, i, fetched, newErr, runErr>>

\* where recover is between its first and its last statement
ReplayPositions == {"recover", "startClient", "loop", "decoder", "closeWrite", "waitClient"}

\* ctx is done during the replay: the commands made by exec.CommandContext
\* that are running are killed (the client dies; the decoder's cmd.Run still
\* has to return)
Cancel ==
    /\ pc \in ReplayPositions
    /\ ~cancelled
    /\ cancelled' = TRUE
    /\ signalled' = {c \in {"client"} : client.state = "running"}
                      \cup {c \in {"decoder"} : pc = "decoder"}
    /\ client' = IF client.state = "running"
                 THEN [client EXCEPT !.state = "exited", !.code = 1]
                 ELSE client
    /\ UNCHANGED <<env, aside, funcs, r, pc, db, storeCalls, failedGets, dropCalls,
                   readEnd, writeEnd, writeCloses, decoders, i, fetched, newErr,
                   runErr>>

Next ==
    \/ New
    \/ NewPXC
    \/ ReadStartGTID
    \/ SetBinlogs
    \/ SwitchRecoverType
    \/ DropCollectorFunctions
    \/ StartClient
    \/ NextSegment
    \/ DecoderExit
    \/ CloseWrite
    \/ WaitClient
    \/ ClientExit
    \/ Cancel

Spec == Init /\ [][Next]_vars

(***************************************************************************)
(* The gateway on its own: a caller (the collector) makes any calls of the *)
(* binlog-introspection operations and of DropCollectorFunctions on one    *)
(* PXC, over a cluster that holds any of the helpers already.              *)
(***************************************************************************)
\* the calls made on the gateway
MaxCalls == 4

\* no recovery under way
Parked ==
    /\ cfg = [RecoverType |-> Latest, RecoverTime |-> EmptyStr, GTID |-> EmptyStr]
    /\ store = << >>
    /\ gtidExecuted = {}
    /\ r = NoRecoverer
    /\ pc = "parked"
    /\ db = "open"
    /\ storeCalls = [lists |-> 0, gets |-> 0]
    /\ dropCalls = 0
    /\ readEnd = "none"
    /\ writeEnd = "none"
    /\ writeCloses = 0
    /\ client = NoClient
    /\ decoders = << >>
    /\ i = 0
    /\ failedGets = {}
    /\ fetched = << >>
    /\ newErr = "pending"
    /\ runErr = "pending"
    /\ cancelled = FALSE
    /\ signalled = {}

GatewayInit ==
    /\ Parked
    /\ funcs \in SUBSET LazyHelpers
    /\ creates = NoCreates
    /\ gwCall = NoGatewayCall
    /\ call = NoCall

\* one of the three operations after its head answered inst: the SELECT of
\* the helper (query: "ok", "fail", or "no binlog", the server's "Binary log
\* does not exist"), whose error only GetGTIDSet lets pass (swallows)
introspect(op, h, inst, query, scanErr, swallows) ==
    /\ funcs' = inst.funcs
    /\ creates' = inst.creates
    /\ gwCall' = [n |-> gwCall.n + 1, op |-> op, helper |-> h,
                  present |-> h \in funcs,
                  created |-> inst.creates[h].issued > creates[h].issued,
                  err |-> IF inst.err # "" THEN inst.err
                          ELSE IF query = "fail" THEN scanErr
                          ELSE IF query = "no binlog" /\ ~swallows THEN scanErr
                          ELSE ""]

\* PXC.GetGTIDSet
GetGTIDSet ==
    /\ gwCall.n < MaxCalls
    /\ \E checkOk, createOk \in BOOLEAN, query \in {"ok", "fail", "no binlog"} :
        introspect("GetGTIDSet", getGtidSetByBinlog,
                   lazyInstall(funcs, creates, getGtidSetByBinlog, checkOk, createOk),
                   query, "scan set", TRUE)
    /\ UNCHANGED <<recovery, ctx, call>>

\* PXC.GetBinLogFirstTimestamp
GetBinLogFirstTimestamp ==
    /\ gwCall.n < MaxCalls
    /\ \E checkOk, createOk \in BOOLEAN, query \in {"ok", "fail", "no binlog"} :
        introspect("GetBinLogFirstTimestamp", getFirstRecordTimestampByBinlog,
                   lazyInstall(funcs, creates, getFirstRecordTimestampByBinlog,
                               checkOk, createOk),
                   query, "scan binlog timestamp", FALSE)
    /\ UNCHANGED <<recovery, ctx, call>>

\* PXC.GetBinLogLastTimestamp
GetBinLogLastTimestamp ==
    /\ gwCall.n < MaxCalls
    /\ \E checkOk, createOk \in BOOLEAN, query \in {"ok", "fail", "no binlog"} :
        introspect("GetBinLogLastTimestamp", getLastRecordTimestampByBinlog,
                   lazyInstall(funcs, creates, getLastRecordTimestampByBinlog,
                               checkOk, createOk),
                   query, "scan binlog timestamp", FALSE)
    /\ UNCHANGED <<recovery, ctx, call>>

\* the caller after DropCollectorFunctions has answered d: the count of
\* CREATE FUNCTION starts again for the helpers a DROP was run for
gatewayDropped(d) ==
    /\ funcs' = d.funcs
    /\ creates' = [h \in LazyHelpers |->
                      IF h \in d.dropped THEN [issued |-> 0, done |-> 0] ELSE creates[h]]
    /\ gwCall' = [n |-> gwCall.n + 1, op |-> "DropCollectorFunctions", helper |-> "",
                  present |-> FALSE, created |-> FALSE, err |-> d.err]

\* PXC.DropCollectorFunctions, called on the gateway
GatewayDrop ==
    /\ gwCall.n < MaxCalls
    /\ \E failAt \in 0..Len(DropList) :
        gatewayDropped(dropCollectorFunctions(funcs, failAt))
    /\ UNCHANGED <<recovery, ctx, call>>

GatewayNext ==
    \/ GetGTIDSet
    \/ GetBinLogFirstTimestamp
    \/ GetBinLogLastTimestamp
    \/ GatewayDrop

GatewaySpec == GatewayInit /\ [][GatewayNext]_vars

(***************************************************************************)
(* The pure helpers on their own: getExtendGTIDSet and getBucketAndPrefix  *)
(* applied to one input each.                                              *)
(***************************************************************************)
\* source ids: a short one and one with a dash in it
BenchUuids == {<<"u">>, <<"a", "-", "b">>}

\* the text uuid:lo-hi, or uuid:n when el is "single"
FragmentText(uuid, lo, hi, el) ==
    uuid \o <<":">> \o (IF el = "single" THEN Itoa(hi) ELSE Itoa(lo) \o <<"-">> \o Itoa(hi))

\* segment sets of one fragment, with what they are made of
SingleFragmentSets ==
    {[gtidSet |-> FragmentText(uuid, lo, hi, "range"), uuid |-> uuid, hi |-> hi, fragments |-> 1] :
        uuid \in BenchUuids, lo \in 1..MaxTxn, hi \in 1..MaxTxn}
    \cup {[gtidSet |-> FragmentText(uuid, n, n, "single"), uuid |-> uuid, hi |-> n, fragments |-> 1] :
        uuid \in BenchUuids, n \in 1..MaxTxn}

\* segment sets of two fragments: a second source, v, after a comma
TwoFragmentSets ==
    {[gtidSet |-> f.gtidSet \o <<",">> \o FragmentText(<<"v">>, 1, n, "range"),
      uuid |-> f.uuid, hi |-> f.hi, fragments |-> 2] :
        f \in SingleFragmentSets, n \in {1, MaxTxn}}

\* the calls of getExtendGTIDSet: a segment set and a target of its source
ExtendCalls ==
    {[for |-> "getExtendGTIDSet", gtidSet |-> f.gtidSet,
      gtid |-> f.uuid \o <<":">> \o Itoa(t),
      uuid |-> f.uuid, hi |-> f.hi, t |-> t, fragments |-> f.fragments] :
        f \in SingleFragmentSets \cup TwoFragmentSets,
        t \in 1..MaxTxn}

BucketNames == {<<"b">>, <<"b", "k">>}

\* what follows the bucket: nothing, one name, two names, the bucket's own
\* name first
PrefixParts == {EmptyStr, <<"p">>, <<"p", "/", "q">>, <<"b", "/", "p">>}

\* what precedes the bucket in each form of a bucket URL
FormHead(form) ==
    CASE form = "s3" -> <<"s", "3", ":", "/", "/">>
      [] form = "https" -> <<"h", "t", "t", "p", "s", ":", "/", "/", "h", "/">>
      [] form = "bare" -> EmptyStr

\* the calls of getBucketAndPrefix, with what each URL is made of
BucketCalls ==
    {[for |-> "getBucketAndPrefix",
      bucketURL |-> FormHead(form) \o bucket
                    \o (IF Len(part) = 0 THEN EmptyStr ELSE <<"/">> \o part)
                    \o (IF slash THEN <<"/">> ELSE EmptyStr),
      form |-> form, bucket |-> bucket, part |-> part, slash |-> slash] :
        form \in {"s3", "https", "bare"}, bucket \in BucketNames,
        part \in PrefixParts, slash \in BOOLEAN}

HelpersInit ==
    /\ Parked
    /\ funcs = {}
    /\ creates = NoCreates
    /\ gwCall = NoGatewayCall
    /\ \E a \in ExtendCalls \cup BucketCalls : call = [fn |-> "", args |-> a, ret |-> << >>]

\* set, err := getExtendGTIDSet(binlogGTIDSet, r.gtid)
CallGetExtendGTIDSet ==
    /\ call.fn = ""
    /\ call.args.for = "getExtendGTIDSet"
    /\ call' = [call EXCEPT !.fn = "getExtendGTIDSet",
                            !.ret = getExtendGTIDSet(call.args.gtidSet, call.args.gtid)]
    /\ UNCHANGED <<recovery, funcs, ctx, creates, gwCall>>

\* bucket, prefix, err := getBucketAndPrefix(c.BinlogStorageS3.BucketURL)
CallGetBucketAndPrefix ==
    /\ call.fn = ""
    /\ call.args.for = "getBucketAndPrefix"
    /\ call' = [call EXCEPT !.fn = "getBucketAndPrefix",
                            !.ret = getBucketAndPrefix(call.args.bucketURL)]
    /\ UNCHANGED <<recovery, funcs, ctx, creates, gwCall>>

HelpersNext ==
    \/ CallGetExtendGTIDSet
    \/ CallGetBucketAndPrefix

HelpersSpec == HelpersInit /\ [][HelpersNext]_vars

(***************************************************************************)
(* What the properties below speak of.                                     *)
(***************************************************************************)
IsSegmentName(name) == ~Contains(name, gtidSetSuffix)

\* the archive's segments in ascending (listing) order
SegmentsOf(st) == SelectSeq(ListObjects(st), IsSegmentName)

\* the transactions of a segment's sidecar
SidecarTxns(st, name) == GtidTxns(ObjectOf(st, name \o gtidSetSuffix).content)

EverySegmentHasSidecar(st) ==
    \A k \in 1..Len(SegmentsOf(st)) : HasObject(st, SegmentsOf(st)[k] \o gtidSetSuffix)

\* each sidecar set is a superset of the one before it
MonotoneSidecars(st) ==
    /\ EverySegmentHasSidecar(st)
    /\ \A k \in 1..(Len(SegmentsOf(st)) - 1) :
          SidecarTxns(st, SegmentsOf(st)[k]) \subseteq SidecarTxns(st, SegmentsOf(st)[k + 1])

\* p is s[off+1 .. off+Len(p)] for some off
IsContiguousSubRange(p, s) ==
    \E off \in 0..(Len(s) - Len(p)) : \A k \in 1..Len(p) : p[k] = s[off + k]

\* the positions in the archive of the segments whose sidecar is not a
\* subset of the executed set the planner started from
NewSegments(st, startGTID) ==
    {k \in 1..Len(SegmentsOf(st)) :
        ~(SidecarTxns(st, SegmentsOf(st)[k]) \subseteq GtidTxns(startGTID))}

PositionOf(s, x) == CHOOSE k \in 1..Len(s) : s[k] = x

\* the command line of a decoder carrying the cut-off flag
DecoderCmdWith(flag) == decoderCmd \o flag \o decoderStdinArg

TargetTxns == GtidTxns(cfg.GTID)

TargetExecuted == TargetTxns \subseteq gtidExecuted

\* the positions of the archive segments that hold the target transaction
TargetSegments ==
    {k \in 1..Len(SegmentsOf(store)) :
        /\ HasObject(store, SegmentsOf(store)[k] \o gtidSetSuffix)
        /\ TargetTxns \subseteq SidecarTxns(store, SegmentsOf(store)[k])}

(***************************************************************************)
(* C1.  For an archive with monotone sidecar sets (each a superset of the  *)
(* one before), the plan of setBinlogs is a contiguous sub-range of the    *)
(* archive's ascending segment list and its earliest segment is the first  *)
(* archive segment whose sidecar set is not a subset of startGTID.         *)
(* The code stops the walk at the newest segment that shares a             *)
(* transaction with startGTID, so this does not hold of it.                *)
(***************************************************************************)
C1_PlanStartsAtFirstNewSegment ==
    (pc = "switch" /\ failedGets = {} /\ MonotoneSidecars(store))
    => /\ IsContiguousSubRange(r.binlogs, SegmentsOf(store))
       /\ NewSegments(store, r.startGTID) # {}
            => r.binlogs[1] = SegmentsOf(store)[SetMin(NewSegments(store, r.startGTID))]

(***************************************************************************)
(* C2.  A request of mode Skip with target g does not fail on its mode,    *)
(* and every decoder it runs carries --exclude-gtids="g".  In the code     *)
(* the case Skip of the switch is commented out: Run answers "wrong        *)
(* recover type".                                                          *)
(***************************************************************************)
C2_SkipReplaysWithExcludeFlag ==
    cfg.RecoverType = Skip
    => /\ runErr # "wrong recover type"
       /\ \A k \in 1..Len(decoders) :
             decoders[k].cmd = DecoderCmdWith(excludeGtidsOpt \o cfg.GTID \o quoteChar)

(***************************************************************************)
(* C3.  A request of mode Transaction whose target u:N lies in archive     *)
(* segment S and is not yet executed is constructed and run up to the      *)
(* replay, with the flag --exclude-gtids="u:N-high(S)", and no segment     *)
(* newer than S is planned.  In the code New rejects every Transaction     *)
(* request ("Invalid start gtidset provided").                             *)
(***************************************************************************)
C3_TransactionExcludesFromTarget ==
    (cfg.RecoverType = Transaction /\ TargetSegments # {} /\ ~TargetExecuted)
    => LET S == SegmentsOf(store)[SetMin(TargetSegments)]
           N == SetMin({t[2] : t \in TargetTxns})
           high == CHOOSE h \in {t[2] : t \in SidecarTxns(store, S)} :
                      \A t \in SidecarTxns(store, S) : t[2] <= h
       IN  /\ newErr \in {"pending", "", "new binlog storage manager"}
           /\ runErr # "wrong recover type"
           /\ \A k \in 1..Len(decoders) :
                 decoders[k].cmd =
                    DecoderCmdWith(excludeGtidsOpt \o GtidText(Range(N, high)) \o quoteChar)
           /\ \A k \in 1..Len(r.binlogs) :
                 PositionOf(SegmentsOf(store), r.binlogs[k]) <= SetMin(TargetSegments)

(***************************************************************************)
(* C4.  In Transaction mode the request is rejected with "Can't restore    *)
(* to transaction before backup" exactly when the cluster has already      *)
(* executed the target; a rejection comes before any use of the store and  *)
(* before any child process; a target not yet executed is not rejected.    *)
(* In the code New rejects whatever the cluster has executed.              *)
(***************************************************************************)
C4_PreflightRejectsExecutedOnly ==
    (cfg.RecoverType = Transaction /\ newErr \notin {"pending", "new binlog storage manager"})
    => /\ (newErr = "Can't restore to transaction before backup") <=> TargetExecuted
       /\ ~TargetExecuted => newErr = ""
       /\ newErr # "" => /\ storeCalls = [lists |-> 0, gets |-> 0]
                         /\ client.state = "none"
                         /\ decoders = << >>

(***************************************************************************)
(* C5.  In Date mode the segments streamed through the decoder are the     *)
(* longest prefix of the plan whose name-embedded timestamps are all       *)
(* <= recoverEndTime.Unix(): nothing beyond that prefix is fetched or      *)
(* decoded, a loop that ends without an error has streamed all of it (a    *)
(* segment stamped exactly at the recovery time included), and every       *)
(* decoder carries --stop-datetime="<recoverTime>".                        *)
(***************************************************************************)
\* the timestamp in a segment's name: its second "_"-separated field
NameTimestamp(name) ==
    LET f == Split(name, "_")
    IN  IF Len(f) >= 2 /\ AllDigits(f[2])
        THEN [ok |-> TRUE, val |-> DigitsVal(f[2])]
        ELSE [ok |-> FALSE, val |-> 0]

\* the length of the longest prefix of plan stamped at or before t
RECURSIVE DatePrefixLen(_, _)
DatePrefixLen(plan, t) ==
    IF Len(plan) = 0 THEN 0
    ELSE IF NameTimestamp(plan[1]).ok /\ NameTimestamp(plan[1]).val <= t
    THEN 1 + DatePrefixLen(Tail(plan), t)
    ELSE 0

LoopEndedClean == pc \in {"closeWrite", "waitClient"} \/ (pc = "exit" /\ writeCloses = 1)

C5_DateStreamsLongestPrefix ==
    (r.recoverType = Date /\ client.state # "none")
    => /\ Len(fetched) <= DatePrefixLen(r.binlogs, r.recoverEndTime)
       /\ Len(decoders) <= Len(fetched)
       /\ \A k \in 1..Len(decoders) :
             /\ decoders[k].binlog = r.binlogs[k]
             /\ decoders[k].cmd =
                  DecoderCmdWith(stopDatetimeOpt \o cfg.RecoverTime \o quoteChar)
       /\ LoopEndedClean => Len(decoders) = DatePrefixLen(r.binlogs, r.recoverEndTime)

\* the loop ended before the end of the plan, right after a segment stamped
\* exactly at the recovery time
C5_Witness ==
    /\ r.recoverType = Date
    /\ pc = "closeWrite"
    /\ Len(decoders) = 2
    /\ Len(r.binlogs) = 3
    /\ NameTimestamp(r.binlogs[2]).val = r.recoverEndTime

(***************************************************************************)
(* C6.  The cluster connection that Run opened is closed on every exit     *)
(* path of Run.  The code never calls Close.                               *)
(***************************************************************************)
C6_ConnectionReleased == pc = "exit" => db # "open"

(***************************************************************************)
(* C7.  Once the pipe exists, by the time recover has returned the write   *)
(* end has been closed exactly once, after the last decoder finished, and  *)
(* the read end is closed only once the client has exited.  The code       *)
(* closes the write end on the success path only, and its deferred close   *)
(* of the read end runs on the error paths while the client still runs.    *)
(***************************************************************************)
C7_PipeEndsClosedInOrder ==
    /\ (pc = "exit" /\ client.state # "none") => writeCloses = 1
    /\ writeEnd = "closed" => \A k \in 1..Len(decoders) : decoders[k].state = "exited"
    /\ readEnd = "closed" => client.state # "running"

(***************************************************************************)
(* C8.  Segments are replayed in ascending archive order: the k-th decoder *)
(* started is for the k-th segment of the plan, the plan is in ascending   *)
(* archive order (the reversal of the newest-to-oldest selection), and a   *)
(* decoder is started only after the one before it has exited.             *)
(***************************************************************************)
C8_AscendingOneDecoderAtATime ==
    /\ \A k \in 1..Len(decoders) : decoders[k].binlog = r.binlogs[k]
    /\ \A k \in 1..(Len(decoders) - 1) : decoders[k].state = "exited"
    /\ \A a, b \in 1..Len(r.binlogs) :
          a < b => PositionOf(SegmentsOf(store), r.binlogs[a])
                     < PositionOf(SegmentsOf(store), r.binlogs[b])

\* the second decoder runs, on the second segment of the plan
C8_Witness ==
    /\ Len(decoders) = 2
    /\ decoders[2].state = "running"
    /\ decoders[1].binlog # decoders[2].binlog

(***************************************************************************)
(* C9.  A non-zero exit of a child process fails the recovery: a decoder   *)
(* that exits non-zero is the last one fetched and decoded and Run         *)
(* returns an error; Run returns nil only if every decoder exited zero     *)
(* and the client was waited for and exited zero.                          *)
(***************************************************************************)
RunFailed == pc = "exit" /\ runErr \notin {"", "pending"}

C9_ChildFailureFailsRun ==
    /\ \A k \in 1..Len(decoders) :
          (decoders[k].state = "exited" /\ decoders[k].code # 0)
          => /\ k = Len(decoders)
             /\ Len(fetched) = k
             /\ RunFailed
    /\ (client.waited /\ client.code # 0) => RunFailed
    /\ runErr = ""
         => /\ \A k \in 1..Len(decoders) :
                  decoders[k].state = "exited" /\ decoders[k].code = 0
            /\ client.state = "exited" /\ client.waited /\ client.code = 0

\* the second decoder exited non-zero with a third segment still planned
C9_Witness ==
    /\ Len(decoders) = 2
    /\ Len(r.binlogs) = 3
    /\ decoders[2].state = "exited"
    /\ decoders[2].code # 0

(***************************************************************************)
(* C10.  When the listing is empty, or holds only sidecar names, or the    *)
(* sidecar of every listed segment cannot be fetched (no segment is        *)
(* chosen), setBinlogs fails with the empty-plan error and the replay      *)
(* never starts: no helper drop, no client, no decoder.                    *)
(***************************************************************************)
ListedOk == storeCalls.lists = 1
            /\ runErr # "get binlog list: list objects with prefix 'binlog_'"

NoSegmentChosen ==
    \A k \in 1..Len(SegmentsOf(store)) :
        \/ ~HasObject(store, SegmentsOf(store)[k] \o gtidSetSuffix)
        \/ (SegmentsOf(store)[k] \o gtidSetSuffix) \in failedGets

C10_EmptyPlanNeverReplays ==
    (ListedOk /\ NoSegmentChosen)
    => /\ pc = "exit"
       /\ runErr = "get binlog list: no objects for prefix binlog_ or with gtid"
       /\ dropCalls = 0
       /\ client.state = "none"
       /\ decoders = << >>
       /\ fetched = << >>

\* two segments are listed and neither sidecar could be fetched
C10_Witness ==
    /\ ListedOk
    /\ NoSegmentChosen
    /\ Len(SegmentsOf(store)) = 2
    /\ storeCalls.gets = 2

(***************************************************************************)
(* C11.  When the fetch of one segment's sidecar fails and the others can  *)
(* be fetched, the planner does not fail on it: the plan, or the error it  *)
(* ends with, is the one the walk gives over the archive without that      *)
(* segment.                                                                *)
(***************************************************************************)
\* the Recoverer as setBinlogs found it
PlanningRecoverer == [r EXCEPT !.binlogs = << >>, !.gtidSet = EmptyStr,
                               !.recoverFlag = EmptyStr, !.recoverEndTime = ZeroTime]

\* the segment a sidecar name belongs to
SegmentOfSidecar(n) == SubSeq(n, 1, Len(n) - Len(gtidSetSuffix))

\* the store without a segment and its sidecar
Without(st, seg) ==
    SelectSeq(st, LAMBDA o : o.name # seg /\ o.name # seg \o gtidSetSuffix)

PlannerErrors ==
    {"list objects with prefix 'binlog_'", "read gtid-set object",
     "check if binlog set is a subset of gtid", "get gtid set for extend",
     "check if start gtid is a subset of binlog set",
     "no objects for prefix binlog_ or with gtid", "get object with gtid set"}

PlanFailed == runErr \in {"get binlog list: " \o e : e \in PlannerErrors}

\* the only sidecar whose fetch failed is that of a listed segment
OneSidecarFailed(n) == failedGets = {n} /\ HasObject(store, SegmentOfSidecar(n))

C11_FailedSidecarSkipsItsSegment ==
    \A n \in SidecarNames :
        OneSidecarFailed(n)
        => LET q == setBinlogs(PlanningRecoverer, Without(store, SegmentOfSidecar(n)),
                               TRUE, {}, {}, TRUE)
           IN  IF q.err = ""
               THEN ~PlanFailed /\ r.binlogs = q.binlogs
               ELSE runErr = "get binlog list: " \o q.err

\* of three segments the middle one's sidecar failed and the other two are
\* planned
C11_Witness ==
    /\ pc = "switch"
    /\ Len(SegmentsOf(store)) = 3
    /\ OneSidecarFailed(SegmentsOf(store)[2] \o gtidSetSuffix)
    /\ r.binlogs = <<SegmentsOf(store)[1], SegmentsOf(store)[3]>>

(***************************************************************************)
(* C12.  Once DropCollectorFunctions has returned nil, none of the three   *)
(* helper functions the gateway installs is registered on the cluster,     *)
(* whatever calls were made before.                                        *)
(***************************************************************************)
DropSucceeded == gwCall.op = "DropCollectorFunctions" /\ gwCall.err = ""

C12_DropLeavesNoHelper ==
    DropSucceeded => funcs \cap LazyHelpers = {}

(***************************************************************************)
(* C13.  As stated: in any calls with no drop in between, CREATE FUNCTION  *)
(* is issued at most once for each helper.                                 *)
(***************************************************************************)
C13_CreateIssuedAtMostOnce ==
    \A h \in LazyHelpers : creates[h].issued <= 1

(***************************************************************************)
(* C13, amended.  CREATE FUNCTION for a helper is issued only by a call    *)
(* that found the helper missing from mysql.func, and without a drop in    *)
(* between it takes effect at most once, after which the helper stays      *)
(* registered; a call that finds the helper issues none; the missing row   *)
(* is not the error of the call.                                           *)
(***************************************************************************)
C13_CreateOnlyWhenMissing ==
    /\ gwCall.created => ~gwCall.present
    /\ gwCall.created => gwCall.err # "get udf name"
    /\ \A h \in LazyHelpers :
          /\ creates[h].done <= 1
          /\ creates[h].done = 1 => h \in funcs

\* the same operation was called twice: the first call created its helper
\* and returned nil, the second found it
C13_Witness ==
    /\ gwCall.n = 2
    /\ gwCall.op = "GetBinLogFirstTimestamp"
    /\ gwCall.present
    /\ ~gwCall.created
    /\ gwCall.err = ""
    /\ creates[getFirstRecordTimestampByBinlog] = [issued |-> 1, done |-> 1]

(***************************************************************************)
(* C14.  getExtendGTIDSet on a segment set of one fragment, uuid:lo-hi or  *)
(* uuid:n (n being lo and hi), and a target uuid:t answers uuid:t-hi       *)
(* without an error; when the segment set is the target itself it answers  *)
(* the target unchanged.                                                   *)
(***************************************************************************)
ExtendCalled == call.fn = "getExtendGTIDSet"

C14_ExtendsFromTargetToHigh ==
    (ExtendCalled /\ call.args.fragments = 1)
    => /\ ~call.ret.err
       /\ call.ret.val =
            IF call.args.gtidSet = call.args.gtid THEN call.args.gtid
            ELSE call.args.uuid \o <<":">> \o Itoa(call.args.t) \o <<"-">> \o Itoa(call.args.hi)

\* a range with the target strictly inside it
C14_Witness ==
    /\ ExtendCalled
    /\ call.args.gtidSet = <<"a", "-", "b", ":", "1", "-", "3">>
    /\ call.args.gtid = <<"a", "-", "b", ":", "2">>
    /\ call.ret.val = <<"a", "-", "b", ":", "2", "-", "3">>

(***************************************************************************)
(* C15.  getExtendGTIDSet answers an error, and no exclude set, for every  *)
(* segment set that holds a comma.                                         *)
(***************************************************************************)
C15_CommaSetsRejected ==
    (ExtendCalled /\ Contains(call.args.gtidSet, <<",">>))
    => call.ret.err /\ call.ret.val = EmptyStr

(***************************************************************************)
(* C17.  getBucketAndPrefix on s3://<bucket>/<prefix>,                     *)
(* https://<host>/<bucket>/<prefix> or <bucket>/<prefix>, with or without  *)
(* a slash at the end and with or without a prefix part: the bucket is     *)
(* the first path segment, the prefix what follows it with a / at its      *)
(* end, and the empty string when nothing follows the bucket.              *)
(***************************************************************************)
BucketCalled == call.fn = "getBucketAndPrefix"

C17_BucketThenPrefix ==
    BucketCalled
    => /\ ~call.ret.err
       /\ call.ret.bucket = call.args.bucket
       /\ call.ret.prefix =
            IF Len(call.args.part) = 0 THEN EmptyStr ELSE call.args.part \o <<"/">>

(***************************************************************************)
(* C16.  Once ctx is done during the replay with a child process running:  *)
(* the running children were signalled and no decoder is started after it  *)
(* (none runs but the one that was running), Run does not return nil, and  *)
(* recover is not left where it can never return.                          *)
(***************************************************************************)
Returned == pc = "exit" /\ runErr # "pending"

\* cmd.Run cannot return: the decoder's output waits in the pipe for the
\* client, and the client has exited (no step of the program or of a child
\* is possible from here)
BlockedOnPipe ==
    /\ pc = "decoder"
    /\ decoders[Len(decoders)].out
    /\ client.state = "exited"

CancelledUnderChildren == cancelled /\ signalled # {}

C16_CancelEndsReplayWithError ==
    CancelledUnderChildren
    => /\ \A k \in 1..Len(decoders) :
             decoders[k].state = "running" => (k = Len(decoders) /\ "decoder" \in signalled)
       /\ "client" \in signalled => client.state = "exited"
       /\ Returned => runErr # ""
       /\ ~BlockedOnPipe

(***************************************************************************)
(* C18.  In mode Latest the cut-off flag is the empty string: every        *)
(* decoder is run as "mysqlbinlog --disable-log-bin  -", with no stop and  *)
(* no exclude flag, and when the loop has ended every planned segment has  *)
(* been fetched and decoded, in the plan's order.                          *)
(***************************************************************************)
C18_LatestHasNoCutOff ==
    cfg.RecoverType = Latest
    => /\ r.recoverFlag = EmptyStr
       /\ \A k \in 1..Len(decoders) :
             /\ decoders[k].cmd = decoderCmd \o decoderStdinArg
             /\ ~Contains(decoders[k].cmd, <<"-", "-", "s", "t", "o", "p">>)
             /\ ~Contains(decoders[k].cmd, <<"-", "-", "e", "x", "c", "l", "u", "d", "e">>)
       /\ LoopEndedClean
            => /\ fetched = r.binlogs
               /\ Len(decoders) = Len(r.binlogs)
               /\ \A k \in 1..Len(decoders) : decoders[k].binlog = r.binlogs[k]

\* a Latest run over a plan of three segments has returned nil
C18_Witness ==
    /\ cfg.RecoverType = Latest
    /\ pc = "exit"
    /\ runErr = ""
    /\ Len(r.binlogs) = 3
    /\ Len(decoders) = 3

(***************************************************************************)
(* C19.  The stop rule of the walk: going from the newest segment to the   *)
(* oldest, every segment whose sidecar could be fetched is planned up to   *)
(* and including the first one whose sidecar shares a transaction with     *)
(* startGTID; no older segment is planned; when no sidecar shares a        *)
(* transaction with startGTID every such segment is planned.               *)
(***************************************************************************)
\* setBinlogs has just returned nil
PlanSucceeded == pc = "switch" /\ r.recoverType # Transaction

\* the positions in segs of the segments whose sidecar setBinlogs could fetch
Fetchable(segs) ==
    {k \in 1..Len(segs) :
        /\ HasObject(store, segs[k] \o gtidSetSuffix)
        /\ (segs[k] \o gtidSetSuffix) \notin failedGets}

\* those of them whose sidecar shares a transaction with startGTID
Overlapping(segs) ==
    LET start == GtidTxns(r.startGTID)
    IN  {k \in Fetchable(segs) : SidecarTxns(store, segs[k]) \cap start # {}}

\* the position the walk stops at; 0 when it goes through the whole listing
StopPosition(over) ==
    IF over = {} THEN 0 ELSE CHOOSE k \in over : \A j \in over : j <= k

\* plan holds, in order, the segments of segs at the positions in chosen
IsPlanOf(plan, segs, chosen) ==
    /\ Len(plan) = Cardinality(chosen)
    /\ \A k \in chosen : \E j \in 1..Len(plan) : plan[j] = segs[k]
    /\ \A j \in 1..Len(plan) : \E k \in chosen : plan[j] = segs[k]

C19_WalkStopsAtNewestOverlap ==
    PlanSucceeded
    => LET segs == SegmentsOf(store)
           stop == StopPosition(Overlapping(segs))
       IN  /\ IsPlanOf(r.binlogs, segs, {k \in Fetchable(segs) : k >= stop})
           /\ stop > 0 => r.binlogs[1] = segs[stop]

\* of three segments the two older ones overlap startGTID: the walk took the
\* newest, stopped at the middle one, and left the oldest out
C19_Witness ==
    /\ PlanSucceeded
    /\ failedGets = {}
    /\ Len(SegmentsOf(store)) = 3
    /\ Overlapping(SegmentsOf(store)) = {1, 2}
    /\ r.binlogs = <<SegmentsOf(store)[2], SegmentsOf(store)[3]>>

(***************************************************************************)
(* C20.  The order of the replay: the helper functions are dropped before  *)
(* the pipe is made and the client started; the client is started before   *)
(* any segment is fetched or decoded; the write end is closed only after   *)
(* every decoder has exited, and before the wait on the client; when the   *)
(* drop fails there is no pipe and no child process.                       *)
(***************************************************************************)
DroppedNames == {DropList[k] : k \in 1..Len(DropList)}

DropFailed == runErr = "recover: drop collector funcs"

C20_ReplayLifecycleOrder ==
    /\ (readEnd # "none" \/ client.state # "none")
         => (dropCalls = 1 /\ ~DropFailed /\ funcs \cap DroppedNames = {})
    /\ (fetched # << >> \/ decoders # << >>) => client.state # "none"
    /\ writeEnd = "closed"
         => (Len(decoders) = Len(fetched)
             /\ \A k \in 1..Len(decoders) : decoders[k].state = "exited")
    /\ (pc = "waitClient" \/ client.waited) => writeEnd = "closed"
    /\ DropFailed
         => /\ readEnd = "none" /\ writeEnd = "none"
            /\ client.state = "none"
            /\ decoders = << >> /\ fetched = << >>

\* a cluster that held the helpers, and a run that went through every
\* stage: drop, client, two decoders, close, wait
C20_Witness ==
    /\ dropCalls = 1
    /\ funcs = {getLastRecordTimestampByBinlog}
    /\ Len(decoders) = 2
    /\ writeEnd = "closed"
    /\ client.waited
    /\ runErr = ""

(***************************************************************************)
(* C21.  The replay always ends: with ctx never done, and each child       *)
(* exiting when it can, recover is never left where it cannot return; in   *)
(* particular not in cmd.Run of a decoder whose output waits in the pipe   *)
(* for a client that has exited.                                           *)
(***************************************************************************)
C21_ReplayNeverBlocks ==
    (pc \in ReplayPositions /\ ~cancelled) => ~BlockedOnPipe

(***************************************************************************)
(* C22.  When recover returns, on the success path and on every error      *)
(* path, every child process it started has been waited for: each decoder  *)
(* has exited under cmd.Run and mysqlCmd.Wait has returned.                *)
(***************************************************************************)
RecoverReturned == pc = "exit" /\ dropCalls = 1

C22_NoChildLeftUnawaited ==
    RecoverReturned
    => /\ \A k \in 1..Len(decoders) : decoders[k].state = "exited"
       /\ client.state # "none" => client.waited
=============================================================================
